---- MODULE Spec2Model ----
(***************************************************************************)
(* The difference (diff2) and cross-correlation (CC) kernels of            *)
(* src/acc/cpu/cpu_kernels/diff2.h as a state machine.                      *)
(*                                                                         *)
(* A driver holds one set of call arguments (arg) and an output array      *)
(* (out); it calls the kernel the arguments select, and each work unit of  *)
(* the call (a block of orientations, an orientation, or a job) is one     *)
(* step that adds that unit's scores into out.                             *)
(*                                                                         *)
(* Arithmetic is exact (the XFLOAT rounding is not modelled):              *)
(*  - signal, reference and weight samples are integers;                   *)
(*  - a translation is given in quarter turns per axis, i.e. in units of   *)
(*    extent/4 pixels, so that every sin/cos table entry is -1, 0 or 1;    *)
(*  - a diff2 accumulator is carried at TWICE its value, so corr * 0.5     *)
(*    stays integral (field "twice" of an output value);                   *)
(*  - a CC score -w/sqrt(n) with n > 0 is carried symbolically as the      *)
(*    pair <<w, n>> in the bag "cc" of an output value;                    *)
(*  - the IEEE results of a division by sqrt(0) are carried in "exc".      *)
(***************************************************************************)
EXTENDS Integers, Sequences, FiniteSets, Bags

VARIABLES
    arg,     \* the arguments of the kernel call (never written by a kernel)
    out,     \* the output array g_diff2s
    out0,    \* the output array as the driver initialised it
    pc,      \* "idle" between calls, "run" inside a call, "fault" after a faulting read
    unit,    \* the index of the next work unit of the running call
    ncalls,  \* the number of completed calls
    calls,   \* the kernel invocations in flight, when they are followed pass by
             \* pass and row by row (SpecSteps)
    scratch  \* the call-local arrays of those invocations, per stack frame

vars == <<arg, out, out0, pc, unit, ncalls, calls, scratch>>

\* the variables of the invocations followed step by step
stepvars == <<calls, scratch>>

(***************************************************************************)
(* Bounds of the model.                                                    *)
(***************************************************************************)
MaxSize == 4
MaxT == 2
MaxGrid == 2
MaxEPB == 2
MaxBlockSz == 3
MaxCalls == 2

(***************************************************************************)
(* XFLOAT values of the output array.                                      *)
(***************************************************************************)
Finite(h) == [twice |-> h, cc |-> EmptyBag, exc |-> "none"]

Zero == Finite(0)

NaN == [twice |-> 0, cc |-> EmptyBag, exc |-> "nan"]

PosInf == [twice |-> 0, cc |-> EmptyBag, exc |-> "pinf"]

NegInf == [twice |-> 0, cc |-> EmptyBag, exc |-> "ninf"]

\* a + b of two XFLOAT values (IEEE: NaN absorbs, inf - inf = NaN)
AddV(a, b) ==
    IF a.exc = "nan" \/ b.exc = "nan" THEN NaN
    ELSE IF a.exc = "none" /\ b.exc = "none"
         THEN [twice |-> a.twice + b.twice, cc |-> a.cc (+) b.cc, exc |-> "none"]
    ELSE IF a.exc = "none" THEN b
    ELSE IF b.exc = "none" THEN a
    ELSE IF a.exc = b.exc THEN a
    ELSE NaN

NegDivSqrtGuarded(w, n) ==
    IF n <= 0 \/ w = 0 THEN Zero
    ELSE [twice |-> 0, cc |-> SetToBag({<<w, n>>}), exc |-> "none"]

\* - ( sum_weight / sqrt(sum_norm) ), no guard on sum_norm
NegDivSqrt(w, n) ==
    IF n < 0 THEN NaN
    ELSE IF n = 0
         THEN (IF w = 0 THEN NaN ELSE IF w > 0 THEN NegInf ELSE PosInf)
    ELSE IF w = 0 THEN Zero
    ELSE [twice |-> 0, cc |-> SetToBag({<<w, n>>}), exc |-> "none"]

\* the sum f[0] + ... + f[n-1] of a loop's per-iteration terms
RECURSIVE SumF(_, _)
SumF(f, n) == IF n = 0 THEN 0 ELSE SumF(f, n - 1) + f[n - 1]

(***************************************************************************)
(* Collaborators (helper.h, acc_projector.h).                              *)
(***************************************************************************)
\* sin and cos of a whole number of quarter turns
SinQ(a) == LET r == ((a % 4) + 4) % 4 IN IF r = 1 THEN 1 ELSE IF r = 3 THEN -1 ELSE 0

CosQ(a) == LET r == ((a % 4) + 4) % 4 IN IF r = 0 THEN 1 ELSE IF r = 2 THEN -1 ELSE 0

computeSincosLookupTableHalfAngle(trans_num, trans_x, trans_y, xSize, ySize) ==
    [sin_x |-> [i \in 0..(trans_num - 1) |->
                    [k \in 0..(xSize - 1) |-> SinQ((trans_x[i] * k) \div 2)]],
     cos_x |-> [i \in 0..(trans_num - 1) |->
                    [k \in 0..(xSize - 1) |-> CosQ((trans_x[i] * k) \div 2)]],
     sin_y |-> [i \in 0..(trans_num - 1) |->
                    [k \in 0..(ySize - 1) |-> SinQ((trans_y[i] * k) \div 2)]],
     cos_y |-> [i \in 0..(trans_num - 1) |->
                    [k \in 0..(ySize - 1) |-> CosQ((trans_y[i] * k) \div 2)]]]

\* sinA[i][k] = sin(2 pi t_i k / N), cosA[i][k] = cos(2 pi t_i k / N), for
\* k in [0, N) and t_i = trans[i] * N / 4
computeSincosLookupTable2D(trans_num, trans_x, trans_y, xSize, ySize) ==
    [sin_x |-> [i \in 0..(trans_num - 1) |-> [k \in 0..(xSize - 1) |-> SinQ(trans_x[i] * k)]],
     cos_x |-> [i \in 0..(trans_num - 1) |-> [k \in 0..(xSize - 1) |-> CosQ(trans_x[i] * k)]],
     sin_y |-> [i \in 0..(trans_num - 1) |-> [k \in 0..(ySize - 1) |-> SinQ(trans_y[i] * k)]],
     cos_y |-> [i \in 0..(trans_num - 1) |-> [k \in 0..(ySize - 1) |-> CosQ(trans_y[i] * k)]]]

computeSincosLookupTable3D(trans_num, trans_x, trans_y, trans_z, xSize, ySize, zSize) ==
    [sin_x |-> [i \in 0..(trans_num - 1) |-> [k \in 0..(xSize - 1) |-> SinQ(trans_x[i] * k)]],
     cos_x |-> [i \in 0..(trans_num - 1) |-> [k \in 0..(xSize - 1) |-> CosQ(trans_x[i] * k)]],
     sin_y |-> [i \in 0..(trans_num - 1) |-> [k \in 0..(ySize - 1) |-> SinQ(trans_y[i] * k)]],
     cos_y |-> [i \in 0..(trans_num - 1) |-> [k \in 0..(ySize - 1) |-> CosQ(trans_y[i] * k)]],
     sin_z |-> [i \in 0..(trans_num - 1) |-> [k \in 0..(zSize - 1) |-> SinQ(trans_z[i] * k)]],
     cos_z |-> [i \in 0..(trans_num - 1) |-> [k \in 0..(zSize - 1) |-> CosQ(trans_z[i] * k)]]]

\* the linear index of the sample whose Fourier coordinate is (x, y, z)
PixelAt(a, x, y, z) ==
    ((IF z < 0 THEN z + a.imgZ ELSE z) * a.imgY
        + (IF y < 0 THEN y + a.imgY ELSE y)) * a.imgX + x

\* The projector the driver passes: "one" returns (1, 0) everywhere, "signal"
\* returns the signal sample at the coordinate, "model" samples a reference
\* that is linear in the rotated coordinate and (0, 0) outside radius maxR.
Sample(a, x, y, z, xp, yp, zp) ==
    IF a.proj = "one" THEN <<1, 0>>
    ELSE IF a.proj = "signal"
         THEN <<a.g_real[PixelAt(a, x, y, z)], a.g_imag[PixelAt(a, x, y, z)]>>
    ELSE IF x * x + y * y + z * z > a.maxR * a.maxR THEN <<0, 0>>
    ELSE <<xp + zp, yp - zp>>

project2Dmodel(a, x, y, e0, e1, e3, e4) ==
    Sample(a, x, y, 0, e0 * x + e1 * y, e3 * x + e4 * y, 0)

project3Dmodel2D(a, x, y, e0, e1, e3, e4, e6, e7) ==
    Sample(a, x, y, 0, e0 * x + e1 * y, e3 * x + e4 * y, e6 * x + e7 * y)

project3Dmodel(a, x, y, z, e0, e1, e2, e3, e4, e5, e6, e7, e8) ==
    Sample(a, x, y, z, e0 * x + e1 * y + e2 * z,
                       e3 * x + e4 * y + e5 * z,
                       e6 * x + e7 * y + e8 * z)

(***************************************************************************)
(* Shared pieces of the kernels.                                           *)
(***************************************************************************)
\* cos and sin of one axis at coordinate k: a negative k reads entry -k and
\* negates the sine
TableIndexSigned(k) == k

\* the table entry read for coordinate k: -k for a negative k
TableIndex(k) == IF k < 0 THEN -k ELSE k

LookupCos(cosA, i, k) == cosA[i][TableIndex(k)]

LookupSin(sinA, i, k) == IF k < 0 THEN -sinA[i][TableIndex(k)] ELSE sinA[i][TableIndex(k)]

\* the sample (re, im) turned by the phase (ss, cc)
Shift(ss, cc, re, im) == <<cc * re - ss * im, cc * im + ss * re>>

AddCellOverwrites(o, c, v) == [o EXCEPT ![c] = v]

\* out with v added into cell c
AddCell(o, c, v) == [o EXCEPT ![c] = AddV(@, v)]

\* out after the additions adds[1], adds[2], ... (each <<cell, value>>) in order
RECURSIVE ApplyAdds(_, _)
ApplyAdds(o, adds) ==
    IF adds = <<>> THEN o
    ELSE ApplyAdds(AddCell(o, Head(adds)[1], Head(adds)[2]), Tail(adds))

(***************************************************************************)
(* diff2_coarse                                                            *)
(***************************************************************************)
pass_num_floor_only(a) == a.image_size \div a.block_sz

\* the number of tiles: image_size / block_sz, rounded up
pass_num(a) ==
    LET pass_num_floor == a.image_size \div a.block_sz
    IN  IF a.image_size % a.block_sz = 0 THEN pass_num_floor ELSE pass_num_floor + 1

CorrNotHalved(c) == 2 * c

\* (corr * 0.5), carried at twice its value
CorrHalf(c) == c

\* x, y, z, s_real, s_imag, s_corr of the tile slot that holds `pixel`
TileSlot(a, pixel) ==
    LET xSize == a.imgX
        ySize == a.imgY
        zSize == a.imgZ
        xySize == xSize * ySize
        z0 == IF a.DATA3D THEN pixel \div xySize ELSE 0
        xy == pixel % xySize
        x0 == IF a.DATA3D THEN xy % xSize ELSE pixel % xSize
        y0 == IF a.DATA3D THEN xy \div xSize ELSE pixel \div xSize
    IN  [x |-> x0,
         y |-> IF y0 > a.maxR THEN y0 - ySize ELSE y0,
         z |-> IF a.DATA3D /\ z0 > a.maxR THEN z0 - zSize ELSE z0,
         s_real |-> a.g_real[pixel],
         s_imag |-> a.g_imag[pixel],
         s_corr |-> CorrHalf(a.g_corr[pixel])]

\* s_ref_real, s_ref_imag of orientation i of the block for a tile slot
CoarseRef(a, s_eulers, i, s) ==
    IF a.DATA3D
    THEN project3Dmodel(a, s.x, s.y, s.z,
            s_eulers[i * 16], s_eulers[i * 16 + 1], s_eulers[i * 16 + 2],
            s_eulers[i * 16 + 3], s_eulers[i * 16 + 4], s_eulers[i * 16 + 5],
            s_eulers[i * 16 + 6], s_eulers[i * 16 + 7], s_eulers[i * 16 + 8])
    ELSE IF a.REF3D
    THEN project3Dmodel2D(a, s.x, s.y,
            s_eulers[i * 16], s_eulers[i * 16 + 1],
            s_eulers[i * 16 + 3], s_eulers[i * 16 + 4],
            s_eulers[i * 16 + 6], s_eulers[i * 16 + 7])
    ELSE project2Dmodel(a, s.x, s.y,
            s_eulers[i * 16], s_eulers[i * 16 + 1],
            s_eulers[i * 16 + 3], s_eulers[i * 16 + 4])

\* real, imag: the slot's signal shifted by translation i
CoarseShifted(a, tab, i, s) ==
    LET trans_cos_x == LookupCos(tab.cos_x, i, s.x)
        trans_sin_x == LookupSin(tab.sin_x, i, s.x)
        trans_cos_y == LookupCos(tab.cos_y, i, s.y)
        trans_sin_y == LookupSin(tab.sin_y, i, s.y)
        s1 == trans_sin_x * trans_cos_y + trans_cos_x * trans_sin_y
        c1 == trans_cos_x * trans_cos_y - trans_sin_x * trans_sin_y
    IN  IF a.DATA3D
        THEN LET trans_cos_z == LookupCos(tab.cos_z, i, s.z)
                 trans_sin_z == LookupSin(tab.sin_z, i, s.z)
                 ss == s1 * trans_cos_z + c1 * trans_sin_z
                 cc == c1 * trans_cos_z - s1 * trans_sin_z
             IN  Shift(ss, cc, s.s_real, s.s_imag)
        ELSE Shift(s1, c1, s.s_real, s.s_imag)

\* the 16-stride scratch copy of the block's orientations
PrefetchEulers(a, block) ==
    [k \in {e * 16 + i : e \in 0..(a.eulers_per_block - 1), i \in 0..8} |->
        a.g_eulers[block * a.eulers_per_block * 9 + (k \div 16) * 9 + (k % 16)]]

CoarseTable(a) ==
    IF a.DATA3D
    THEN computeSincosLookupTable3D(a.translation_num, a.trans_x, a.trans_y, a.trans_z,
                                    a.imgX, a.imgY, a.imgZ)
    ELSE computeSincosLookupTable2D(a.translation_num, a.trans_x, a.trans_y, a.imgX, a.imgY)

\* diffi[j] of one pass of a block for translation i: what the pass adds to
\* diff2s[i][j]
diff2_coarse_diffi(a, block, i, j, pass) ==
    LET tab == CoarseTable(a)
        s_eulers == PrefetchEulers(a, block)
        term(pixel) ==
            LET s == TileSlot(a, pixel)
                ref == CoarseRef(a, s_eulers, j, s)
                sh == CoarseShifted(a, tab, i, s)
                diff_real == ref[1] - sh[1]
                diff_imag == ref[2] - sh[2]
            IN  (diff_real * diff_real + diff_imag * diff_imag) * s.s_corr
    IN  SumF([tid \in 0..(a.block_sz - 1) |->
                IF pass * a.block_sz + tid < a.image_size
                THEN term(pass * a.block_sz + tid) ELSE 0], a.block_sz)

\* diff2s[i][j] of a block after all passes: translation i, orientation j
diff2_coarse_diff2s(a, block, i, j) ==
    SumF([pass \in 0..(pass_num(a) - 1) |-> diff2_coarse_diffi(a, block, i, j, pass)],
         pass_num(a))

CoarseOutIndexTransposed(a, block, j, i) ==
    block * a.eulers_per_block * a.translation_num + i * a.eulers_per_block + j

\* the cell pData[j * translation_num + i] of a block
CoarseOutIndex(a, block, j, i) ==
    block * a.eulers_per_block * a.translation_num + j * a.translation_num + i

\* The additions of one block, in the order of the final double loop.
diff2_coarse_block(a, block) ==
    LET T == a.translation_num
    IN  [k \in 1..(a.eulers_per_block * T) |->
            LET j == (k - 1) \div T
                i == (k - 1) % T
            IN  <<CoarseOutIndex(a, block, j, i), Finite(diff2_coarse_diff2s(a, block, i, j))>>]

(***************************************************************************)
(* The row-by-row kernels.                                                 *)
(***************************************************************************)
Row2DAllColumns(a, iy) ==
    [y |-> IF iy > a.maxR /\ iy >= a.imgY - a.maxR THEN iy - a.imgY ELSE iy,
     xstart |-> 0,
     xend |-> a.imgX]

Row2DWrapsBand(a, iy) ==
    LET single == iy > a.maxR /\ ~(iy >= a.imgY - a.maxR)
    IN  [y |-> IF iy > a.maxR THEN iy - a.imgY ELSE iy,
         xstart |-> IF single THEN a.maxR ELSE 0,
         xend |-> IF single THEN a.maxR + 1 ELSE a.imgX]

\* y, xstart, xend of row iy: rows beyond maxR wrap to negative y, except
\* the rows of the band maxR < iy < ySize - maxR, which keep y = iy and are
\* cut down to the one pixel x = maxR
Row2D(a, iy) ==
    LET wraps == iy > a.maxR /\ iy >= a.imgY - a.maxR
        single == iy > a.maxR /\ ~(iy >= a.imgY - a.maxR)
    IN  [y |-> IF wraps THEN iy - a.imgY ELSE iy,
         xstart |-> IF single THEN a.maxR ELSE 0,
         xend |-> IF single THEN a.maxR + 1 ELSE a.imgX]

\* z, y, xstart_y, xend_y of row iy of plane iz
Row3D(a, iz, iy) ==
    LET zwraps == iz > a.maxR /\ iz >= a.imgZ - a.maxR
        zsingle == iz > a.maxR /\ ~(iz >= a.imgZ - a.maxR)
        xstart_z == IF zsingle THEN a.maxR ELSE 0
        xend_z == IF zsingle THEN a.maxR + 1 ELSE a.imgX
        ywraps == iy > a.maxR /\ iy >= a.imgY - a.maxR
        ysingle == iy > a.maxR /\ ~(iy >= a.imgY - a.maxR)
    IN  [z |-> IF zwraps THEN iz - a.imgZ ELSE iz,
         y |-> IF ywraps THEN iy - a.imgY ELSE iy,
         xstart |-> IF ysingle THEN a.maxR ELSE xstart_z,
         xend |-> IF ysingle THEN a.maxR + 1 ELSE xend_z]

\* The running offset `pixel` when row iy (of plane iz) is processed.
\* 2D kernels, diff2_fine_3D and diff2_CC_coarse_3D advance it by xSize after
\* every row; diff2_CC_fine_3D advances it after every plane.
PixelOffset2D(a, iy) == iy * a.imgX

PixelOffset3D(a, iz, iy) == (iz * a.imgY + iy) * a.imgX

PixelOffsetCCFine3D(a, iz, iy) == iz * a.imgX

\* ss, cc of translation itrans at column x of a row with coordinate y
PhaseXY(tab, itrans, x, y) ==
    LET trans_cos_y == LookupCos(tab.cos_y, itrans, y)
        trans_sin_y == LookupSin(tab.sin_y, itrans, y)
        trans_cos_x == tab.cos_x[itrans]
        trans_sin_x == tab.sin_x[itrans]
    IN  <<trans_sin_x[x] * trans_cos_y + trans_cos_x[x] * trans_sin_y,
          trans_cos_x[x] * trans_cos_y - trans_sin_x[x] * trans_sin_y>>

\* ss, cc of translation itrans at column x of a row with coordinates y, z
PhaseXYZ(tab, itrans, x, y, z) ==
    LET trans_cos_z == LookupCos(tab.cos_z, itrans, z)
        trans_sin_z == LookupSin(tab.sin_z, itrans, z)
        p == PhaseXY(tab, itrans, x, y)
        s1 == p[1]
        c1 == p[2]
    IN  <<s1 * trans_cos_z + c1 * trans_sin_z, c1 * trans_cos_z - s1 * trans_sin_z>>

JobTransFromZero(a, bid, g_trans) == [i \in 0..(a.job_num[bid] - 1) |-> g_trans[i]]

\* The translations of job bid, gathered into the compact arrays.
JobTrans(a, bid, g_trans) ==
    [i \in 0..(a.job_num[bid] - 1) |-> g_trans[a.trans_idx[a.job_idx[bid]] + i]]

HalfCorrSqWhole(c) == 2 * c

\* twice the square of half_corr = sqrt(corr * 0.5)
HalfCorrSq(c) == c

\* One pixel of the diff2 fine kernels.  ref and signal are both scaled by
\* half_corr, so the difference is (ref - shifted) * half_corr and its
\* squared magnitude is |ref - shifted|^2 * half_corr^2.
FineTerm(ref, ph, re, im, corr) ==
    LET sh == Shift(ph[1], ph[2], re, im)
        diff_real == ref[1] - sh[1]
        diff_imag == ref[2] - sh[2]
    IN  (diff_real * diff_real + diff_imag * diff_imag) * HalfCorrSq(corr)

\* One pixel of the CC kernels: its terms of s_weight and s_norm.
CCTerm(ref, ph, re, im, corr) ==
    LET sh == Shift(ph[1], ph[2], re, im)
    IN  <<(ref[1] * sh[1] + ref[2] * sh[2]) * corr,
          (ref[1] * ref[1] + ref[2] * ref[2]) * corr>>

FineEmitTwice(s, sum_init) == AddV(Finite(s), Finite(2 * sum_init))

\* s[itrans] + sum_init of the diff2 fine kernels
FineEmit(s, sum_init) == AddV(Finite(s), Finite(sum_init))

(***************************************************************************)
(* diff2_fine_2D, diff2_fine_3D                                            *)
(***************************************************************************)
JobTable2D(a, bid) ==
    computeSincosLookupTable2D(a.job_num[bid], JobTrans(a, bid, a.trans_x),
                               JobTrans(a, bid, a.trans_y), a.imgX, a.imgY)

JobTable3D(a, bid) ==
    computeSincosLookupTable3D(a.job_num[bid], JobTrans(a, bid, a.trans_x),
                               JobTrans(a, bid, a.trans_y), JobTrans(a, bid, a.trans_z),
                               a.imgX, a.imgY, a.imgZ)

\* ref_real[x], ref_imag[x] of a row of 2D data for the orientation at
\* g_eulers[offset ..]
RowRef2D(a, offset, x, y) ==
    IF a.REF3D
    THEN project3Dmodel2D(a, x, y, a.g_eulers[offset], a.g_eulers[offset + 1],
                          a.g_eulers[offset + 3], a.g_eulers[offset + 4],
                          a.g_eulers[offset + 6], a.g_eulers[offset + 7])
    ELSE project2Dmodel(a, x, y, a.g_eulers[offset], a.g_eulers[offset + 1],
                        a.g_eulers[offset + 3], a.g_eulers[offset + 4])

RowRef3D(a, offset, x, y, z) ==
    project3Dmodel(a, x, y, z,
                   a.g_eulers[offset], a.g_eulers[offset + 1], a.g_eulers[offset + 2],
                   a.g_eulers[offset + 3], a.g_eulers[offset + 4], a.g_eulers[offset + 5],
                   a.g_eulers[offset + 6], a.g_eulers[offset + 7], a.g_eulers[offset + 8])

\* what row iy adds to s[itrans] of job bid
diff2_fine_2D_row(a, bid, itrans, iy) ==
    LET offset == a.rot_idx[a.job_idx[bid]] * 9
        tab == JobTable2D(a, bid)
        r == Row2D(a, iy)
        pixel == PixelOffset2D(a, iy)
        term(x) ==
            FineTerm(RowRef2D(a, offset, x, r.y), PhaseXY(tab, itrans, x, r.y),
                     a.g_real[pixel + x], a.g_imag[pixel + x], a.g_corr[pixel + x])
    IN  SumF([x \in 0..(a.imgX - 1) |->
                IF x >= r.xstart /\ x < r.xend THEN term(x) ELSE 0], a.imgX)

\* s[itrans] of job bid after all rows
diff2_fine_2D_s(a, bid, itrans) ==
    SumF([iy \in 0..(a.imgY - 1) |-> diff2_fine_2D_row(a, bid, itrans, iy)], a.imgY)

diff2_fine_2D_job(a, bid) ==
    [k \in 1..a.job_num[bid] |->
        <<a.job_idx[bid] + (k - 1), FineEmit(diff2_fine_2D_s(a, bid, k - 1), a.sum_init)>>]

\* what row iy of plane iz adds to s[itrans] of job bid
diff2_fine_3D_row(a, bid, itrans, iz, iy) ==
    LET offset == a.rot_idx[a.job_idx[bid]] * 9
        tab == JobTable3D(a, bid)
        r == Row3D(a, iz, iy)
        pixel == PixelOffset3D(a, iz, iy)
        term(x) ==
            FineTerm(RowRef3D(a, offset, x, r.y, r.z), PhaseXYZ(tab, itrans, x, r.y, r.z),
                     a.g_real[pixel + x], a.g_imag[pixel + x], a.g_corr[pixel + x])
    IN  SumF([x \in 0..(a.imgX - 1) |->
                IF x >= r.xstart /\ x < r.xend THEN term(x) ELSE 0], a.imgX)

diff2_fine_3D_s(a, bid, itrans) ==
    SumF([iz \in 0..(a.imgZ - 1) |->
            SumF([iy \in 0..(a.imgY - 1) |-> diff2_fine_3D_row(a, bid, itrans, iz, iy)],
                 a.imgY)], a.imgZ)

diff2_fine_3D_job(a, bid) ==
    [k \in 1..a.job_num[bid] |->
        <<a.job_idx[bid] + (k - 1), FineEmit(diff2_fine_3D_s(a, bid, k - 1), a.sum_init)>>]

(***************************************************************************)
(* diff2_CC_coarse_2D, diff2_CC_coarse_3D, diff2_CC_fine_2D,               *)
(* diff2_CC_fine_3D                                                        *)
(***************************************************************************)
\* what row iy adds to <<s_weight[itrans][x], s_norm[itrans][x]>>
CCRow2D(a, tab, offset, itrans, iy, x) ==
    LET r == Row2D(a, iy)
        pixel == PixelOffset2D(a, iy)
    IN  IF x >= r.xstart /\ x < r.xend
        THEN CCTerm(RowRef2D(a, offset, x, r.y), PhaseXY(tab, itrans, x, r.y),
                    a.g_real[pixel + x], a.g_imag[pixel + x], a.g_corr[pixel + x])
        ELSE <<0, 0>>

\* <<sum of s_weight[itrans][x], sum of s_norm[itrans][x]>> over the columns x
\* of 2D data, for the orientation at g_eulers[offset ..] and row itrans of
\* the table
CCSums2D(a, tab, offset, itrans) ==
    LET col(x) ==
            [k \in 1..2 |->
                SumF([iy \in 0..(a.imgY - 1) |-> CCRow2D(a, tab, offset, itrans, iy, x)[k]],
                     a.imgY)]
    IN  <<SumF([x \in 0..(a.imgX - 1) |-> col(x)[1]], a.imgX),
          SumF([x \in 0..(a.imgX - 1) |-> col(x)[2]], a.imgX)>>

\* the value a CC coarse kernel adds for the sums of one translation
CCCoarseEmitPlus(a, sums) == NegDivSqrt(-sums[1], sums[2])

CCCoarseEmit(a, sums) == NegDivSqrt(sums[1], sums[2])

CCFineEmitBiased(a, sums) == AddV(NegDivSqrt(sums[1], sums[2]), Finite(a.sum_init))

\* the value a CC fine kernel adds for the sums of one translation
CCFineEmit(a, sums) == NegDivSqrt(sums[1], sums[2])

diff2_CC_coarse_2D_sums(a, iorient, itrans) ==
    CCSums2D(a, computeSincosLookupTable2D(a.translation_num, a.trans_x, a.trans_y,
                                           a.imgX, a.imgY),
             iorient * 9, itrans)

diff2_CC_coarse_2D_orient(a, iorient) ==
    [k \in 1..a.translation_num |->
        <<iorient * a.translation_num + (k - 1),
          CCCoarseEmit(a, diff2_CC_coarse_2D_sums(a, iorient, k - 1))>>]

diff2_CC_fine_2D_sums(a, bid, itrans) ==
    CCSums2D(a, JobTable2D(a, bid), a.rot_idx[a.job_idx[bid]] * 9, itrans)

diff2_CC_fine_2D_job(a, bid) ==
    [k \in 1..a.job_num[bid] |->
        <<a.job_idx[bid] + (k - 1), CCFineEmit(a, diff2_CC_fine_2D_sums(a, bid, k - 1))>>]

\* what row iy of plane iz adds to <<s_weight[itrans][x], s_norm[itrans][x]>>;
\* `pixel` is the running offset of the kernel, given per row as off[iz][iy]
CCRow3D(a, tab, offset, itrans, off, iz, iy, x) ==
    LET r == Row3D(a, iz, iy)
        pixel == off[iz][iy]
    IN  IF x >= r.xstart /\ x < r.xend
        THEN CCTerm(RowRef3D(a, offset, x, r.y, r.z), PhaseXYZ(tab, itrans, x, r.y, r.z),
                    a.g_real[pixel + x], a.g_imag[pixel + x], a.g_corr[pixel + x])
        ELSE <<0, 0>>

\* the same sums over the rows of all planes of 3D data
CCSums3D(a, tab, offset, itrans, off) ==
    LET col(x) ==
            [k \in 1..2 |->
                SumF([iz \in 0..(a.imgZ - 1) |->
                        SumF([iy \in 0..(a.imgY - 1) |->
                                CCRow3D(a, tab, offset, itrans, off, iz, iy, x)[k]],
                             a.imgY)], a.imgZ)]
    IN  <<SumF([x \in 0..(a.imgX - 1) |-> col(x)[1]], a.imgX),
          SumF([x \in 0..(a.imgX - 1) |-> col(x)[2]], a.imgX)>>

diff2_CC_coarse_3D_sums(a, iorient, itrans) ==
    CCSums3D(a, computeSincosLookupTable3D(a.translation_num, a.trans_x, a.trans_y,
                                           a.trans_z, a.imgX, a.imgY, a.imgZ),
             iorient * 9, itrans,
             [iz \in 0..(a.imgZ - 1) |-> [iy \in 0..(a.imgY - 1) |-> PixelOffset3D(a, iz, iy)]])

diff2_CC_coarse_3D_orient(a, iorient) ==
    [k \in 1..a.translation_num |->
        <<iorient * a.translation_num + (k - 1),
          CCCoarseEmit(a, diff2_CC_coarse_3D_sums(a, iorient, k - 1))>>]

diff2_CC_fine_3D_sums(a, bid, itrans) ==
    CCSums3D(a, JobTable3D(a, bid), a.rot_idx[a.job_idx[bid]] * 9, itrans,
             [iz \in 0..(a.imgZ - 1) |->
                [iy \in 0..(a.imgY - 1) |-> PixelOffsetCCFine3D(a, iz, iy)]])

diff2_CC_fine_3D_job(a, bid) ==
    [k \in 1..a.job_num[bid] |->
        <<a.job_idx[bid] + (k - 1), CCFineEmit(a, diff2_CC_fine_3D_sums(a, bid, k - 1))>>]

(***************************************************************************)
(* The driver: the arguments it can pass.                                  *)
(***************************************************************************)
\* extents and radial cutoff <<imgX, imgY, imgZ, maxR>>, 0 <= maxR < extents
Geometries ==
    {g \in (1..(MaxSize \div 2)) \X ((MaxSize - 1)..MaxSize) \X {1, MaxSize - 1} \X (0..1) :
        g[4] < g[1]}

\* the template instances <<block_sz, eulers_per_block>> of diff2_coarse
Instances == {<<MaxBlockSz, 1>>, <<MaxBlockSz - 1, MaxEPB>>}

orientation_num == MaxGrid * MaxEPB

OutLen == orientation_num * MaxT + 1

\* row-major rotation matrices: identity, quarter turns about z, x and y
Rotations ==
    << <<1, 0, 0,  0, 1, 0,  0, 0, 1>>,
       <<0, -1, 0,  1, 0, 0,  0, 0, 1>>,
       <<1, 0, 0,  0, 0, -1,  0, 1, 0>>,
       <<0, 0, 1,  0, 1, 0,  -1, 0, 0>> >>

Eulers == [k \in 0..(9 * orientation_num - 1) |-> Rotations[((k \div 9) % 4) + 1][(k % 9) + 1]]

\* signal and weights: "flat" is signal (1, 0) with weight 1, "ramp" gives
\* every pixel its own sample and weights 0, 1, 2
DataKinds == {"flat", "ramp"}

ProjKinds == {"one", "signal", "model"}

\* translations in quarter turns: all zero, or all different
TransKinds == {"zero", "shift"}

\* Job tables <<job_idx, job_num>> over the pair list (orientation k \div T,
\* translation k % T at position k): one job per orientation, or jobs that
\* overlap, are empty, or start inside an orientation.
JobTables(T) ==
    { << <<0, T>>, <<T, T>> >>,
      << <<0, 1>>, <<0, T>>, <<T, 0>>, <<2 * T + 1, T - 1>> >> }

Kernels ==
    {"diff2_coarse", "diff2_fine_2D", "diff2_fine_3D", "diff2_CC_coarse_2D",
     "diff2_CC_coarse_3D", "diff2_CC_fine_2D", "diff2_CC_fine_3D"}

IsFine(k) == k \in {"diff2_fine_2D", "diff2_fine_3D", "diff2_CC_fine_2D", "diff2_CC_fine_3D"}

IsCC(k) ==
    k \in {"diff2_CC_coarse_2D", "diff2_CC_coarse_3D", "diff2_CC_fine_2D", "diff2_CC_fine_3D"}

Is3D(k) == k \in {"diff2_fine_3D", "diff2_CC_coarse_3D", "diff2_CC_fine_3D"}

MkArg(kernel, REF3D, DATA3D, inst, g, data, proj, trans, jobs, sum_init, tz_len) ==
    LET P == g[1] * g[2] * g[3]
        T == MaxT
    IN  [kernel |-> kernel, REF3D |-> REF3D, DATA3D |-> DATA3D,
         block_sz |-> inst[1], eulers_per_block |-> inst[2],
         grid_size |-> IF IsFine(kernel) THEN Len(jobs)
                       ELSE IF kernel = "diff2_coarse" THEN MaxGrid
                       ELSE orientation_num,
         imgX |-> g[1], imgY |-> g[2], imgZ |-> g[3], maxR |-> g[4],
         image_size |-> P,
         translation_num |-> T,
         g_eulers |-> Eulers,
         trans_x |-> [i \in 0..(T - 1) |-> IF trans = "zero" THEN 0 ELSE i + 1],
         trans_y |-> [i \in 0..(T - 1) |-> IF trans = "zero" THEN 0 ELSE 3 - i],
         trans_z |-> [i \in 0..(T - 1) |-> IF trans = "zero" THEN 0 ELSE i + 2],
         trans_z_len |-> tz_len,
         g_real |-> [p \in 0..(P - 1) |-> IF data = "flat" THEN 1 ELSE p + 1],
         g_imag |-> [p \in 0..(P - 1) |-> IF data = "flat" THEN 0 ELSE (p % 3) - 1],
         g_corr |-> [p \in 0..(P - 1) |-> IF data = "flat" THEN 1 ELSE p % 3],
         proj |-> proj,
         sum_init |-> sum_init,
         exp_local_sqrtXi2 |-> 1,
         rot_idx |-> [k \in 0..(orientation_num * T - 1) |-> k \div T],
         trans_idx |-> [k \in 0..(orientation_num * T - 1) |-> k % T],
         job_idx |-> [b \in 0..(Len(jobs) - 1) |-> jobs[b + 1][1]],
         job_num |-> [b \in 0..(Len(jobs) - 1) |-> jobs[b + 1][2]]]

\* the kernel variants <<kernel, REF3D, DATA3D, geometry>>: 3D data has a 3D
\* reference, and 2D data has imgZ = 1
Variants ==
    {v \in Kernels \X BOOLEAN \X BOOLEAN \X Geometries :
        /\ v[3] => v[2]
        /\ v[1] # "diff2_coarse" => v[3] = Is3D(v[1])
        /\ ~v[3] => v[4][3] = 1}

\* sum_init, at twice its value
SumInits == {0, 7}

\* the number of elements of the trans_z buffer the caller passes: all of
\* them, or none (a null pointer) where the data is 2D
TransZLens == {0, MaxT}

\* Every combination, where a parameter a kernel does not take is held fixed.
Choices ==
    {c \in Variants \X Instances \X DataKinds \X ProjKinds \X TransKinds
            \X JobTables(MaxT) \X SumInits \X TransZLens :
        /\ c[1][1] # "diff2_coarse" => c[2][2] = 1
        /\ ~IsFine(c[1][1]) => Len(c[6]) = 2 /\ c[7] = 0
        /\ (c[1][1] # "diff2_coarse" \/ c[1][3]) => c[8] = MaxT}

Args ==
    {MkArg(c[1][1], c[1][2], c[1][3], c[2], c[1][4], c[3], c[4], c[5], c[6], c[7], c[8]) :
        c \in Choices}

ZeroOut == [c \in 0..(OutLen - 1) |-> Zero]

RampOut == [c \in 0..(OutLen - 1) |-> Finite(c + 1)]

(***************************************************************************)
(* The state machine.                                                      *)
(***************************************************************************)
Init ==
    /\ arg \in Args
    /\ out0 = RampOut
    /\ out = out0
    /\ pc = "idle"
    /\ unit = 0
    /\ ncalls = 0
    /\ calls = <<>>
    /\ scratch = <<>>

\* the driver calls the kernel
Call ==
    /\ pc = "idle"
    /\ ncalls < MaxCalls
    /\ pc' = "run"
    /\ unit' = 0
    /\ UNCHANGED <<arg, out, out0, ncalls, stepvars>>

\* the additions of work unit u of the kernel the arguments select
UnitAdds(a, u) ==
    IF a.kernel = "diff2_coarse" THEN diff2_coarse_block(a, u)
    ELSE IF a.kernel = "diff2_fine_2D" THEN diff2_fine_2D_job(a, u)
    ELSE IF a.kernel = "diff2_fine_3D" THEN diff2_fine_3D_job(a, u)
    ELSE IF a.kernel = "diff2_CC_coarse_2D" THEN diff2_CC_coarse_2D_orient(a, u)
    ELSE IF a.kernel = "diff2_CC_coarse_3D" THEN diff2_CC_coarse_3D_orient(a, u)
    ELSE IF a.kernel = "diff2_CC_fine_2D" THEN diff2_CC_fine_2D_job(a, u)
    ELSE diff2_CC_fine_3D_job(a, u)

\* one iteration of the kernel's outer loop
Step(kernel) ==
    /\ pc = "run"
    /\ arg.kernel = kernel
    /\ unit < arg.grid_size
    /\ out' = ApplyAdds(out, UnitAdds(arg, unit))
    /\ unit' = unit + 1
    /\ UNCHANGED <<arg, out0, pc, ncalls, stepvars>>

\* the elements of trans_z one block of diff2_coarse reads (XFLOAT tz =
\* trans_z[i], for 2D and 3D data alike)
CoarseReadsTransZ(a) == 0..(a.translation_num - 1)

\* A read outside the buffer is undefined: the value read is not used for
\* 2D data, so the block either goes on as usual or the read faults.
TransZReadOutcomes(a) ==
    IF \A i \in CoarseReadsTransZ(a) : i < a.trans_z_len THEN {"ok"} ELSE {"ok", "fault"}

diff2_coarse ==
    \E outcome \in TransZReadOutcomes(arg) :
        IF outcome = "ok" THEN Step("diff2_coarse")
        ELSE /\ pc = "run"
             /\ arg.kernel = "diff2_coarse"
             /\ unit < arg.grid_size
             /\ pc' = "fault"
             /\ UNCHANGED <<arg, out, out0, unit, ncalls, stepvars>>

diff2_fine_2D == Step("diff2_fine_2D")

diff2_fine_3D == Step("diff2_fine_3D")

diff2_CC_coarse_2D == Step("diff2_CC_coarse_2D")

diff2_CC_coarse_3D == Step("diff2_CC_coarse_3D")

diff2_CC_fine_2D == Step("diff2_CC_fine_2D")

diff2_CC_fine_3D == Step("diff2_CC_fine_3D")

\* the outer loop ends and the call returns
Return ==
    /\ pc = "run"
    /\ unit = arg.grid_size
    /\ pc' = "idle"
    /\ ncalls' = ncalls + 1
    /\ UNCHANGED <<arg, out, out0, unit, stepvars>>

Next ==
    \/ Call
    \/ diff2_coarse
    \/ diff2_fine_2D
    \/ diff2_fine_3D
    \/ diff2_CC_coarse_2D
    \/ diff2_CC_coarse_3D
    \/ diff2_CC_fine_2D
    \/ diff2_CC_fine_3D
    \/ Return

Spec == Init /\ [][Next]_vars

(***************************************************************************)
(* What the kernels are specified to compute, written directly from the    *)
(* definitions of the scores: one sum over the pixels of the image, the    *)
(* phase taken from the angle itself.                                      *)
(***************************************************************************)
\* the output array a + b, cell by cell
AddOut(a, b) == [c \in DOMAIN a |-> AddV(a[c], b[c])]

\* a whole call of the kernel on the output array o: work units u, u + 1, ...
RECURSIVE KernelCall(_, _, _)
KernelCall(a, o, u) ==
    IF u >= a.grid_size THEN o ELSE KernelCall(a, ApplyAdds(o, UnitAdds(a, u)), u + 1)

\* the signed Fourier coordinate of linear index p: z = p / (imgX imgY),
\* y = (p mod imgX imgY) / imgX, x = p mod imgX, and a y or z above maxR
\* stands for the negative frequency y - imgY, z - imgZ
WrappedCoord(a, p) ==
    LET z0 == p \div (a.imgX * a.imgY)
        y0 == (p % (a.imgX * a.imgY)) \div a.imgX
    IN  [x |-> p % a.imgX,
         y |-> IF y0 > a.maxR THEN y0 - a.imgY ELSE y0,
         z |-> IF z0 > a.maxR THEN z0 - a.imgZ ELSE z0]

\* the reference sample of orientation number o at a coordinate
RefSample(a, o, x, y, z) ==
    IF a.DATA3D THEN RowRef3D(a, o * 9, x, y, z) ELSE RowRef2D(a, o * 9, x, y)

\* <<sin, cos>> of the phase of translation t at a coordinate
DirectPhase(a, t, x, y, z) ==
    LET phi == a.trans_x[t] * x + a.trans_y[t] * y + (IF a.DATA3D THEN a.trans_z[t] * z ELSE 0)
    IN  <<SinQ(phi), CosQ(phi)>>

\* |ref - shifted signal|^2 of pixel p at coordinate c
SqDiff(a, o, t, p, c) ==
    LET ref == RefSample(a, o, c.x, c.y, c.z)
        ph == DirectPhase(a, t, c.x, c.y, c.z)
        sh == Shift(ph[1], ph[2], a.g_real[p], a.g_imag[p])
    IN  (ref[1] - sh[1]) * (ref[1] - sh[1]) + (ref[2] - sh[2]) * (ref[2] - sh[2])

\* twice the diff2 score 0.5 * sum over all pixels of corr |ref - shifted|^2
Diff2Score(a, o, t) ==
    SumF([p \in 0..(a.image_size - 1) |-> SqDiff(a, o, t, p, WrappedCoord(a, p)) * a.g_corr[p]],
         a.image_size)

\* The pixel p as a row-by-row kernel meets it: its coordinate, and whether
\* the row's range of x holds it.
RowPixel(a, p) ==
    LET iz == p \div (a.imgX * a.imgY)
        iy == (p % (a.imgX * a.imgY)) \div a.imgX
        x == p % a.imgX
        r == Row3D(a, iz, iy)
    IN  [x |-> x, y |-> r.y, z |-> r.z, visited |-> x >= r.xstart /\ x < r.xend]

\* twice the diff2 score over the pixels a row-by-row kernel visits
FineDiff2Score(a, o, t) ==
    SumF([p \in 0..(a.image_size - 1) |->
            IF RowPixel(a, p).visited
            THEN SqDiff(a, o, t, p, RowPixel(a, p)) * a.g_corr[p] ELSE 0], a.image_size)

\* <<s_weight, s_norm>> over the pixels a row-by-row kernel visits
CCScoreSums(a, o, t) ==
    LET term(p) ==
            LET c == RowPixel(a, p)
                ref == RefSample(a, o, c.x, c.y, c.z)
                ph == DirectPhase(a, t, c.x, c.y, c.z)
                sh == Shift(ph[1], ph[2], a.g_real[p], a.g_imag[p])
            IN  <<(ref[1] * sh[1] + ref[2] * sh[2]) * a.g_corr[p],
                  (ref[1] * ref[1] + ref[2] * ref[2]) * a.g_corr[p]>>
    IN  <<SumF([p \in 0..(a.image_size - 1) |->
                    IF RowPixel(a, p).visited THEN term(p)[1] ELSE 0], a.image_size),
          SumF([p \in 0..(a.image_size - 1) |->
                    IF RowPixel(a, p).visited THEN term(p)[2] ELSE 0], a.image_size)>>

\* the score a fine kernel emits for orientation o and translation t
PairScore(a, o, t) ==
    IF IsCC(a.kernel)
    THEN NegDivSqrt(CCScoreSums(a, o, t)[1], CCScoreSums(a, o, t)[2])
    ELSE AddV(Finite(FineDiff2Score(a, o, t)), Finite(a.sum_init))

\* the sum of the scores of the jobs b, b + 1, ..., n - 1 that cover cell c
RECURSIVE CoverSum(_, _, _, _)
CoverSum(a, c, b, n) ==
    IF b >= n THEN Zero
    ELSE LET first == a.job_idx[b]
             here == IF c >= first /\ c < first + a.job_num[b]
                     THEN PairScore(a, a.rot_idx[first], a.trans_idx[first] + (c - first))
                     ELSE Zero
         IN  AddV(here, CoverSum(a, c, b + 1, n))

(***************************************************************************)
(* C1  Accumulator semantics: after n calls of a kernel on the same        *)
(* arguments the output is the starting output plus n times what one call  *)
(* adds to an all-zero output (n = 2 in particular); no cell is zeroed or  *)
(* overwritten.                                                            *)
(***************************************************************************)
C1_Accumulator ==
    (pc = "idle" /\ ncalls >= 1 /\ ncalls <= 2) =>
            \A D \in {KernelCall(arg, ZeroOut, 0)} :
                /\ ncalls = 1 => out = AddOut(out0, D)
                /\ ncalls = 2 => out = AddOut(out0, AddOut(D, D))

C1_Witness ==
    /\ pc = "idle"
    /\ ncalls = 2
    /\ out0 = RampOut
    /\ \E c \in DOMAIN out :
            out[c].exc = "none" /\ (out[c].twice # out0[c].twice \/ out[c].cc # EmptyBag)

(***************************************************************************)
(* C2  diff2_coarse placement and frame: the score of orientation          *)
(* b * eulers_per_block + e with translation t is added to cell            *)
(* b*eulers_per_block*translation_num + e*translation_num + t; distinct    *)
(* (b, e, t) address distinct cells; the cells from                        *)
(* grid_size * eulers_per_block * translation_num on are left unchanged.   *)
(***************************************************************************)
C2_CoarsePlacement ==
    (arg.kernel = "diff2_coarse" /\ ncalls = 0) =>
        LET E == arg.eulers_per_block
            T == arg.translation_num
            done == IF pc \in {"run", "fault"} THEN unit ELSE 0
            Triples == (0..(arg.grid_size - 1)) \X (0..(E - 1)) \X (0..(T - 1))
            Cell(v) == v[1] * E * T + v[2] * T + v[3]
        IN  /\ \A v \in Triples :
                out[Cell(v)] =
                    IF v[1] < done
                    THEN AddV(out0[Cell(v)], Finite(Diff2Score(arg, v[1] * E + v[2], v[3])))
                    ELSE out0[Cell(v)]
            /\ \A v, w \in Triples : v # w => Cell(v) # Cell(w)
            /\ \A c \in DOMAIN out : c >= arg.grid_size * E * T => out[c] = out0[c]

C2_Witness ==
    /\ arg.kernel = "diff2_coarse"
    /\ ncalls = 0
    /\ pc = "run"
    /\ unit = arg.grid_size
    /\ arg.eulers_per_block > 1
    /\ arg.proj = "model"
    /\ out[0] # out[arg.translation_num]
    /\ \A c \in 0..(arg.grid_size * arg.eulers_per_block * arg.translation_num - 1) :
            out[c] # out0[c]

(***************************************************************************)
(* C3  Fine-kernel job placement: job b adds to out[job_idx[b] + i] the    *)
(* score of orientation rot_idx[job_idx[b]] with translation               *)
(* trans_idx[job_idx[b]] + i, for i < job_num[b]; a cell no job covers is  *)
(* unchanged, an empty job writes nothing, a cell two jobs cover receives  *)
(* both scores.                                                            *)
(***************************************************************************)
C3_FinePlacement ==
    (IsFine(arg.kernel) /\ ncalls = 0 /\ pc = "run") =>
        \A c \in DOMAIN out : out[c] = AddV(out0[c], CoverSum(arg, c, 0, unit))

\* every translation is (0, 0, 0)
ZeroTranslations(a) ==
    \A i \in 0..(a.translation_num - 1) :
        a.trans_x[i] = 0 /\ a.trans_y[i] = 0 /\ a.trans_z[i] = 0

\* the diff2_coarse cells of the blocks processed so far in the first call
CoarseCellsDone ==
    {v \in (0..(arg.grid_size - 1)) \X (0..(arg.eulers_per_block - 1))
            \X (0..(arg.translation_num - 1)) : pc = "run" /\ v[1] < unit}

\* scenario S1: 4 x 4 image, maxR = 1, one zero translation per cell,
\* corr = 1, signal = 0, projector constant (1, 0)
ScenarioS1 ==
    [MkArg("diff2_coarse", FALSE, FALSE, <<MaxBlockSz, 1>>, <<4, 4, 1, 1>>,
           "flat", "one", "zero", << <<0, 1>>, <<1, 1>> >>, 0, MaxT)
        EXCEPT !.g_real = [p \in 0..15 |-> 0]]

(***************************************************************************)
(* C4  Translation identity: with all translations zero, diff2_coarse adds *)
(* to each cell 0.5 * sum over all pixels p of corr[p] |ref_p - sig_p|^2,  *)
(* ref_p the projector value at the wrapped coordinate of p; the factor    *)
(* 1/2 is applied once.  In scenario S1 that is 8 per cell.                *)
(***************************************************************************)
C4_TranslationIdentity ==
    (arg.kernel = "diff2_coarse" /\ ncalls = 0 /\ ZeroTranslations(arg)) =>
        /\ \A v \in CoarseCellsDone :
            LET o == v[1] * arg.eulers_per_block + v[2]
                c == v[1] * arg.eulers_per_block * arg.translation_num
                        + v[2] * arg.translation_num + v[3]
                twiceScore ==
                    SumF([p \in 0..(arg.image_size - 1) |->
                            LET w == WrappedCoord(arg, p)
                                ref == RefSample(arg, o, w.x, w.y, w.z)
                                dr == ref[1] - arg.g_real[p]
                                di == ref[2] - arg.g_imag[p]
                            IN  arg.g_corr[p] * (dr * dr + di * di)], arg.image_size)
            IN  out[c] = AddV(out0[c], Finite(twiceScore))
        /\ (pc = "run" /\ unit = arg.grid_size) =>
                \A k \in 1..MaxT : diff2_coarse_block(ScenarioS1, 0)[k][2] = Finite(2 * 8)

C4_Witness ==
    /\ arg.kernel = "diff2_coarse"
    /\ ncalls = 0
    /\ ZeroTranslations(arg)
    /\ pc = "run"
    /\ unit = arg.grid_size
    /\ arg.proj = "model"
    /\ arg.image_size % arg.block_sz # 0
    /\ \A c \in 0..(arg.grid_size * arg.eulers_per_block * arg.translation_num - 1) :
            out[c].twice > out0[c].twice

\* the number of jobs among the first n that cover cell c
CoverCount(a, c, n) ==
    Cardinality({b \in 0..(n - 1) : c >= a.job_idx[b] /\ c < a.job_idx[b] + a.job_num[b]})

(***************************************************************************)
(* C5  Reference-signal identity and sum_init: when the projector returns  *)
(* the signal sample of every visited pixel and all translations are zero, *)
(* diff2_coarse adds 0 to every cell and diff2_fine_2D/3D add exactly      *)
(* sum_init per emitted score; in general the diff2 fine kernels add       *)
(* sum_init exactly once per emitted score, whatever the number of rows,   *)
(* planes and pixels.                                                      *)
(***************************************************************************)
C5_SignalIdentity ==
    /\ (arg.kernel = "diff2_coarse" /\ arg.proj = "signal" /\ ZeroTranslations(arg)
            /\ ncalls = 0) => out = out0
    /\ (arg.kernel \in {"diff2_fine_2D", "diff2_fine_3D"} /\ ncalls = 0 /\ pc = "run") =>
        /\ (arg.proj = "signal" /\ ZeroTranslations(arg)) =>
                \A c \in DOMAIN out :
                    out[c] = AddV(out0[c], Finite(CoverCount(arg, c, unit) * arg.sum_init))
        /\ unit < arg.grid_size =>
                LET with == UnitAdds(arg, unit)
                    without == UnitAdds([arg EXCEPT !.sum_init = 0], unit)
                IN  /\ Len(with) = arg.job_num[unit]
                    /\ \A k \in 1..Len(with) :
                        /\ with[k][1] = arg.job_idx[unit] + (k - 1)
                        /\ with[k][2] = AddV(without[k][2], Finite(arg.sum_init))

C5_Witness ==
    /\ arg.kernel = "diff2_fine_3D"
    /\ arg.proj = "signal"
    /\ ZeroTranslations(arg)
    /\ arg.imgZ > 1
    /\ arg.sum_init = 7
    /\ ncalls = 0
    /\ pc = "run"
    /\ unit = arg.grid_size
    /\ out[0] = AddV(out0[0], Finite(2 * 7))
    /\ out[1] = AddV(out0[1], Finite(7))

\* signal (1, 0) and weight 1 at every pixel
FlatData(a) ==
    \A p \in 0..(a.image_size - 1) : a.g_real[p] = 1 /\ a.g_imag[p] = 0 /\ a.g_corr[p] = 1

\* the rows of the polar-skip band of 2D data
BandRows(a) == {iy \in 0..(a.imgY - 1) : a.maxR < iy /\ iy < a.imgY - a.maxR}

\* the aligned scenario in diff2_CC_coarse_2D, after orientation unit - 1
AlignedCase ==
    /\ arg.kernel = "diff2_CC_coarse_2D"
    /\ arg.proj = "one"
    /\ FlatData(arg)
    /\ ZeroTranslations(arg)
    /\ ncalls = 0
    /\ pc = "run"
    /\ unit > 0

\* in the aligned scenario s_weight = s_norm = n and -n/sqrt(n) is added
AlignedSums(n) ==
    \A t \in 0..(arg.translation_num - 1) :
        /\ diff2_CC_coarse_2D_sums(arg, unit - 1, t) = <<n, n>>
        /\ out[(unit - 1) * arg.translation_num + t]
                = AddV(out0[(unit - 1) * arg.translation_num + t], NegDivSqrt(n, n))

(***************************************************************************)
(* C6 as stated: in the aligned scenario (projector (1, 0), signal (1, 0), *)
(* corr 1, translation 0) diff2_CC_coarse_2D has s_weight = s_norm =       *)
(* image_size for every geometry and adds -sqrt(image_size).               *)
(***************************************************************************)
C6_Original == AlignedCase => AlignedSums(arg.image_size)

(***************************************************************************)
(* C6 amended: in the aligned scenario s_weight = s_norm = the number of   *)
(* pixels the row loop visits, imgX for each row outside the polar-skip    *)
(* band and 1 for each row maxR < iy < imgY - maxR, and -sqrt of that      *)
(* number is added; it is image_size exactly when the band is empty or     *)
(* imgX = 1.                                                               *)
(***************************************************************************)
C6_AlignedVisited ==
    AlignedCase =>
        LET n == (arg.imgY - Cardinality(BandRows(arg))) * arg.imgX + Cardinality(BandRows(arg))
        IN  /\ AlignedSums(n)
            /\ (n = arg.image_size) <=> (BandRows(arg) = {} \/ arg.imgX = 1)

C6_Witness ==
    /\ AlignedCase
    /\ BandRows(arg) # {}
    /\ arg.imgX > 1
    /\ arg.maxR > 0
    /\ out[0].cc # EmptyBag

\* the pixels of 2D or 3D data that lie in a cut-down row at an x other
\* than maxR
SkippedPixels(a) ==
    {p \in 0..(a.image_size - 1) :
        LET iz == p \div (a.imgX * a.imgY)
            iy == (p % (a.imgX * a.imgY)) \div a.imgX
        IN  /\ \/ a.maxR < iy /\ iy < a.imgY - a.maxR
               \/ a.maxR < iz /\ iz < a.imgZ - a.maxR
            /\ p % a.imgX # a.maxR}

\* the row record a row-by-row kernel uses for row iy of plane iz
KernelRow(a, iz, iy) ==
    IF Is3D(a.kernel) THEN Row3D(a, iz, iy)
    ELSE [z |-> 0, y |-> Row2D(a, iy).y, xstart |-> Row2D(a, iy).xstart,
          xend |-> Row2D(a, iy).xend]

(***************************************************************************)
(* C7  Polar skip coverage in the fine kernels: a row maxR < iy < imgY -   *)
(* maxR (3D: also every row of a plane maxR < iz < imgZ - maxR)            *)
(* contributes only x = maxR, every other row all x; changing the signal   *)
(* or the weight at any other x of a skipped row leaves the output         *)
(* unchanged.                                                              *)
(***************************************************************************)
C7_PolarSkip ==
    (IsFine(arg.kernel) /\ pc = "run" /\ unit < arg.grid_size /\ ncalls = 0) =>
        /\ \A iz \in 0..(arg.imgZ - 1), iy \in 0..(arg.imgY - 1) :
            LET r == KernelRow(arg, iz, iy)
                skipped == \/ arg.maxR < iy /\ iy < arg.imgY - arg.maxR
                           \/ arg.maxR < iz /\ iz < arg.imgZ - arg.maxR
            IN  <<r.xstart, r.xend>> =
                    IF skipped THEN <<arg.maxR, arg.maxR + 1>> ELSE <<0, arg.imgX>>
        /\ \A p \in SkippedPixels(arg) :
                UnitAdds([arg EXCEPT !.g_real[p] = @ + 1, !.g_imag[p] = @ + 2,
                                     !.g_corr[p] = @ + 1], unit)
                    = UnitAdds(arg, unit)

\* a kernel call is in progress
Running == pc = "run" /\ unit < arg.grid_size /\ ncalls = 0

\* The y and z the coarse kernel uses for every pixel of a row or plane
\* beyond maxR are the wrapped ones.
CoarseWraps ==
    \A p \in 0..(arg.image_size - 1) :
        LET iz == IF arg.DATA3D THEN p \div (arg.imgX * arg.imgY) ELSE 0
            iy == IF arg.DATA3D THEN (p % (arg.imgX * arg.imgY)) \div arg.imgX
                  ELSE p \div arg.imgX
        IN  /\ iy > arg.maxR => TileSlot(arg, p).y = iy - arg.imgY
            /\ iy <= arg.maxR => TileSlot(arg, p).y = iy
            /\ iz > arg.maxR => TileSlot(arg, p).z = iz - arg.imgZ
            /\ iz <= arg.maxR => TileSlot(arg, p).z = iz

(***************************************************************************)
(* C8 as stated: in every kernel, a processed pixel of a row iy > maxR     *)
(* (plane iz > maxR) has the coordinate y = iy - imgY (z = iz - imgZ),     *)
(* the rows of the polar-skip band included.                               *)
(***************************************************************************)
C8_Original ==
    Running =>
        IF arg.kernel = "diff2_coarse" THEN CoarseWraps
        ELSE \A iz \in 0..(arg.imgZ - 1), iy \in 0..(arg.imgY - 1) :
                /\ iy > arg.maxR => KernelRow(arg, iz, iy).y = iy - arg.imgY
                /\ iz > arg.maxR => KernelRow(arg, iz, iy).z = iz - arg.imgZ

(***************************************************************************)
(* C8 amended: diff2_coarse wraps every row iy > maxR (plane iz > maxR);   *)
(* the row-by-row kernels (fine and CC coarse) wrap the rows               *)
(* iy >= imgY - maxR (planes iz >= imgZ - maxR) beyond maxR, while the     *)
(* one pixel of a row of the polar-skip band maxR < iy < imgY - maxR       *)
(* (plane maxR < iz < imgZ - maxR) is processed with the unwrapped         *)
(* y = iy (z = iz).                                                        *)
(***************************************************************************)
C8_WrapOutsideBand ==
    Running =>
        IF arg.kernel = "diff2_coarse" THEN CoarseWraps
        ELSE \A iz \in 0..(arg.imgZ - 1), iy \in 0..(arg.imgY - 1) :
                LET r == KernelRow(arg, iz, iy)
                IN  /\ r.y = IF iy > arg.maxR /\ iy >= arg.imgY - arg.maxR
                             THEN iy - arg.imgY ELSE iy
                    /\ r.z = IF iz > arg.maxR /\ iz >= arg.imgZ - arg.maxR
                             THEN iz - arg.imgZ ELSE iz

C8_Witness ==
    /\ Running
    /\ unit > 0
    /\ arg.kernel = "diff2_fine_2D"
    /\ arg.maxR > 0
    /\ BandRows(arg) # {}
    /\ \E iy \in 0..(arg.imgY - 1) : Row2D(arg, iy).y < 0
    /\ out # out0

\* <<sum_weight, sum_norm>> of translation itrans of work unit u of a CC kernel
CCUnitSums(a, u, itrans) ==
    IF a.kernel = "diff2_CC_coarse_2D" THEN diff2_CC_coarse_2D_sums(a, u, itrans)
    ELSE IF a.kernel = "diff2_CC_coarse_3D" THEN diff2_CC_coarse_3D_sums(a, u, itrans)
    ELSE IF a.kernel = "diff2_CC_fine_2D" THEN diff2_CC_fine_2D_sums(a, u, itrans)
    ELSE diff2_CC_fine_3D_sums(a, u, itrans)

\* a CC kernel has just processed work unit unit - 1 of its first call
AfterCCUnit == IsCC(arg.kernel) /\ pc = "run" /\ unit > 0 /\ ncalls = 0

\* the additions of the work unit just processed whose sum_norm is 0
ZeroNormAdds ==
    {k \in 1..Len(UnitAdds(arg, unit - 1)) : CCUnitSums(arg, unit - 1, k - 1)[2] = 0}

(***************************************************************************)
(* C9 as stated: when sum_norm = 0 in a CC kernel, the value added to the  *)
(* output cell is an infinity.                                             *)
(***************************************************************************)
C9_Original ==
    AfterCCUnit =>
        \A adds \in {UnitAdds(arg, unit - 1)} :
            \A k \in 1..Len(adds) :
                CCUnitSums(arg, unit - 1, k - 1)[2] = 0 =>
                    /\ adds[k][2] \in {PosInf, NegInf}
                    /\ out[adds[k][1]] \in {PosInf, NegInf}

(***************************************************************************)
(* C9 amended: when sum_norm = 0 in a CC kernel (nonnegative weights),     *)
(* sum_weight is 0 as well, the value added is the NaN of 0/0 (not an      *)
(* infinity), no guard is applied and the NaN flows into the output cell.  *)
(***************************************************************************)
C9_ZeroNormIsNaN ==
    AfterCCUnit =>
        \A adds \in {UnitAdds(arg, unit - 1)} :
            \A k \in 1..Len(adds) :
                \A sums \in {CCUnitSums(arg, unit - 1, k - 1)} :
                    sums[2] = 0 =>
                        /\ sums[1] = 0
                        /\ adds[k][2] = NaN
                        /\ out[adds[k][1]] = NaN

C9_Witness ==
    /\ AfterCCUnit
    /\ ZeroNormAdds # {}
    /\ arg.proj = "model"
    /\ out[UnitAdds(arg, unit - 1)[1][1]] = NaN

(***************************************************************************)
(* C10  Non-interference of unused parameters: what a CC fine kernel adds  *)
(* does not depend on sum_init or exp_local_sqrtXi2, what a CC coarse      *)
(* kernel adds does not depend on exp_local_sqrtXi2; the CC increment is   *)
(* -sum/sqrt(norm) with no sum_init term.                                  *)
(***************************************************************************)
C10_UnusedParameters ==
    (IsCC(arg.kernel) /\ Running) =>
        \A adds \in {UnitAdds(arg, unit)} :
            /\ \A v \in {<<-3, arg.exp_local_sqrtXi2>>, <<arg.sum_init, 5>>, <<7, 0>>} :
                    UnitAdds([arg EXCEPT !.sum_init = v[1], !.exp_local_sqrtXi2 = v[2]], unit)
                        = adds
            /\ \A k \in 1..Len(adds) :
                    \A sums \in {CCUnitSums(arg, unit, k - 1)} :
                        adds[k][2] = NegDivSqrt(sums[1], sums[2])

C10_Witness ==
    /\ arg.kernel = "diff2_CC_fine_3D"
    /\ Running
    /\ unit > 0
    /\ arg.sum_init = 7
    /\ \E c \in DOMAIN out : out[c].cc # EmptyBag

(***************************************************************************)
(* C11  trans_z is ignored for 2D data: diff2_coarse with DATA3D = false   *)
(* never accesses trans_z, so a call with an absent trans_z completes      *)
(* (and yields the output of a call with any other trans_z).               *)
(***************************************************************************)
C11_TransZIgnored ==
    (arg.kernel = "diff2_coarse" /\ ~arg.DATA3D) =>
        /\ pc # "fault"
        /\ (pc = "run" /\ unit < arg.grid_size) =>
                \A i \in CoarseReadsTransZ(arg) : i < arg.trans_z_len

\* every translation moved by one image extent along each axis: imgX, imgY
\* and imgZ pixels are four quarter-turn units each
ShiftedByExtent(a) ==
    [a EXCEPT !.trans_x = [i \in DOMAIN a.trans_x |-> a.trans_x[i] + 4],
              !.trans_y = [i \in DOMAIN a.trans_y |-> a.trans_y[i] + 4],
              !.trans_z = [i \in DOMAIN a.trans_z |-> a.trans_z[i] + 4]]

IsDiff2(k) == k \in {"diff2_coarse", "diff2_fine_2D", "diff2_fine_3D"}

C14_CCFine3DAddressing ==
    (arg.kernel = "diff2_CC_fine_3D" /\ Running) =>
        /\ \A iz \in 0..(arg.imgZ - 1), iy \in 0..(arg.imgY - 1) :
                PixelOffsetCCFine3D(arg, iz, iy) = (iz * arg.imgY + iy) * arg.imgX
        /\ \A itrans \in 0..(arg.job_num[unit] - 1) :
                diff2_CC_fine_3D_sums(arg, unit, itrans)
                    = CCSums3D(arg, JobTable3D(arg, unit),
                               arg.rot_idx[arg.job_idx[unit]] * 9, itrans,
                               [iz \in 0..(arg.imgZ - 1) |->
                                    [iy \in 0..(arg.imgY - 1) |->
                                        PixelOffset3D(arg, iz, iy)]])

\* block sizes to compare: 1, sizes that do not divide image_size, the
\* image size itself and a block larger than the image
BlockSizes(a) ==
    {bs \in {1, 2, a.block_sz + 1, a.image_size - 1, a.image_size, a.image_size + 1} : bs >= 1}

\* the tile slots <<pass, tid>> of diff2_coarse that hold a pixel
TileSlots(a) ==
    {sl \in (0..(pass_num(a) - 1)) \X (0..(a.block_sz - 1)) :
        sl[1] * a.block_sz + sl[2] < a.image_size}

(***************************************************************************)
(* C15  diff2_coarse tiling: with pass_num = ceil(image_size / block_sz)   *)
(* tiles every pixel is in exactly one tile slot, the slots beyond         *)
(* image_size of the last tile contribute nothing, and what is added to    *)
(* each cell is the same for every block_sz >= 1, whether or not it        *)
(* divides image_size and also when it exceeds image_size.                 *)
(***************************************************************************)
C15_Tiling ==
    (arg.kernel = "diff2_coarse" /\ Running) =>
        \A bs \in BlockSizes(arg) \cup {arg.block_sz} :
            \A b \in {[arg EXCEPT !.block_sz = bs]} :
                /\ pass_num(b) * bs >= b.image_size
                /\ (pass_num(b) - 1) * bs < b.image_size
                /\ {sl[1] * bs + sl[2] : sl \in TileSlots(b)} = 0..(b.image_size - 1)
                /\ Cardinality(TileSlots(b)) = b.image_size
                /\ UnitAdds(b, unit) = UnitAdds(arg, unit)

C15_Witness ==
    /\ arg.kernel = "diff2_coarse"
    /\ Running
    /\ unit > 0
    /\ arg.image_size % arg.block_sz # 0
    /\ arg.proj = "model"
    /\ out # out0

IsCCCoarse(k) == k \in {"diff2_CC_coarse_2D", "diff2_CC_coarse_3D"}

\* a value that is <= 0: no exception, and every term -w/sqrt(n) has w >= 0
NonPositive(v) ==
    /\ v.exc = "none"
    /\ v.twice <= 0
    /\ \A e \in BagToSet(v.cc) : e[1] >= 0 /\ e[2] > 0

(***************************************************************************)
(* C17  CC coarse score and placement: diff2_CC_coarse_2D/3D add to        *)
(* out[o * trans_num + t] exactly -s_weight/sqrt(s_norm), the sums taken   *)
(* over the visited pixels with the unscaled weight corr, one orientation  *)
(* per work unit; the other cells are untouched; the value added is <= 0   *)
(* whenever s_weight >= 0 and s_norm > 0.                                  *)
(***************************************************************************)
C17_CCCoarseScore ==
    (IsCCCoarse(arg.kernel) /\ pc = "run" /\ ncalls = 0) =>
        /\ \A c \in DOMAIN out :
                IF c < unit * arg.translation_num
                THEN \A S \in {CCScoreSums(arg, c \div arg.translation_num,
                                           c % arg.translation_num)} :
                        out[c] = AddV(out0[c], NegDivSqrt(S[1], S[2]))
                ELSE out[c] = out0[c]
        /\ unit < arg.grid_size =>
                \A adds \in {UnitAdds(arg, unit)} :
                    /\ Len(adds) = arg.translation_num
                    /\ \A t \in 0..(arg.translation_num - 1) :
                            \A S \in {CCScoreSums(arg, unit, t)} :
                                /\ adds[t + 1][1] = unit * arg.translation_num + t
                                /\ adds[t + 1][2] = NegDivSqrt(S[1], S[2])
                                /\ (S[1] >= 0 /\ S[2] > 0) => NonPositive(adds[t + 1][2])

C17_Witness ==
    /\ arg.kernel = "diff2_CC_coarse_3D"
    /\ pc = "run"
    /\ ncalls = 0
    /\ unit = arg.grid_size
    /\ ~ZeroTranslations(arg)
    /\ \E c \in DOMAIN out : out[c].cc # EmptyBag /\ out[c].twice = out0[c].twice
    /\ \E t \in 0..(arg.translation_num - 1) :
            CCScoreSums(arg, 1, t)[1] > 0 /\ CCScoreSums(arg, 1, t)[2] > 0
    /\ \E t \in 0..(arg.translation_num - 1) : CCScoreSums(arg, 1, t)[1] < 0

\* diff2_coarse called on the same data with one orientation per block, so
\* that block o holds orientation o
CoarseTwin(a) ==
    [a EXCEPT !.kernel = "diff2_coarse", !.eulers_per_block = 1,
              !.grid_size = orientation_num]

\* the pixels of the rows of the polar-skip band of 2D data
BandPixels(a) == {p \in 0..(a.image_size - 1) : (p \div a.imgX) \in BandRows(a)}

\* twice what the band pixels with x # maxR contribute to diff2_coarse
BandOffEdge(a, o, t) ==
    SumF([p \in 0..(a.image_size - 1) |->
            IF p \in BandPixels(a) /\ p % a.imgX # a.maxR
            THEN SqDiff(a, o, t, p, WrappedCoord(a, p)) * a.g_corr[p] ELSE 0], a.image_size)

\* twice the difference, over the band pixels with x = maxR, between the
\* term at the wrapped coordinate (diff2_coarse) and at the row kernel's
\* coordinate (diff2_fine_2D)
BandEdgeShift(a, o, t) ==
    SumF([p \in 0..(a.image_size - 1) |->
            IF p \in BandPixels(a) /\ p % a.imgX = a.maxR
            THEN (SqDiff(a, o, t, p, WrappedCoord(a, p))
                    - SqDiff(a, o, t, p, RowPixel(a, p))) * a.g_corr[p]
            ELSE 0], a.image_size)

\* diff2_fine_2D is about to process job `unit` of its first call
FineJobCase == arg.kernel = "diff2_fine_2D" /\ Running

\* For every translation i of the job: what diff2_fine_2D adds is twice
\* sum_init + coarse value - off-edge band terms - edge, all at twice
\* their value.
FineVersusCoarse(with_edge) ==
    \A adds \in {UnitAdds(arg, unit)} :
        \A i \in 0..(arg.job_num[unit] - 1) :
            \A o \in {arg.rot_idx[arg.job_idx[unit]]} :
                \A t \in {arg.trans_idx[arg.job_idx[unit]] + i} :
                    adds[i + 1][2] =
                        Finite(diff2_coarse_diff2s(CoarseTwin(arg), o, t, 0)
                                - BandOffEdge(arg, o, t)
                                - (IF with_edge THEN BandEdgeShift(arg, o, t) ELSE 0)
                                + arg.sum_init)

(***************************************************************************)
(* C18 as stated: what diff2_fine_2D adds for orientation o and            *)
(* translation t, minus sum_init, equals what diff2_coarse adds to the     *)
(* cell of (o, t) when the polar-skip band is empty, and otherwise differs *)
(* from it by the contributions of the band-row pixels with x # maxR only. *)
(***************************************************************************)
C18_Original == FineJobCase => FineVersusCoarse(FALSE)

(***************************************************************************)
(* C18 amended: the two agree when the band is empty; when it is not, they *)
(* differ by the band-row pixels with x # maxR, which only diff2_coarse    *)
(* includes, and by the band-row pixel x = maxR, which diff2_coarse        *)
(* evaluates at the wrapped y = iy - imgY and diff2_fine_2D at y = iy;     *)
(* this second difference is zero when the translations are zero and the   *)
(* projector does not depend on y, or when the projector returns (0, 0)    *)
(* outside radius maxR.                                                    *)
(***************************************************************************)
C18_FineVersusCoarse ==
    FineJobCase =>
        /\ FineVersusCoarse(TRUE)
        /\ BandRows(arg) = {} => FineVersusCoarse(FALSE)
        /\ (arg.proj = "model" \/ (arg.proj = "one" /\ ZeroTranslations(arg)))
                => FineVersusCoarse(FALSE)

C18_Witness ==
    /\ FineJobCase
    /\ unit > 0
    /\ arg.job_num[unit] > 0
    /\ BandRows(arg) # {}
    /\ BandEdgeShift(arg, arg.rot_idx[arg.job_idx[unit]], arg.trans_idx[arg.job_idx[unit]]) # 0
    /\ BandOffEdge(arg, arg.rot_idx[arg.job_idx[unit]], arg.trans_idx[arg.job_idx[unit]]) # 0
    /\ out # out0

\* diff2_CC_coarse_2D called on the same signal, weights, projector,
\* orientations and translations
CCCoarseTwin(a) ==
    [a EXCEPT !.kernel = "diff2_CC_coarse_2D", !.grid_size = orientation_num]

(***************************************************************************)
(* C19  CC coarse/fine agreement (2D data): for every geometry and either  *)
(* reference arity, what diff2_CC_fine_2D adds to out[job_idx[b] + i] for  *)
(* orientation o = rot_idx[job_idx[b]] and translation                     *)
(* t = trans_idx[job_idx[b]] + i equals what diff2_CC_coarse_2D adds to    *)
(* out[o * trans_num + t] on the same data; the sums s_weight and s_norm   *)
(* of the two agree.                                                       *)
(***************************************************************************)
C19_CCFineVersusCoarse ==
    (arg.kernel = "diff2_CC_fine_2D" /\ Running) =>
        \A adds \in {UnitAdds(arg, unit)} :
            \A o \in {arg.rot_idx[arg.job_idx[unit]]} :
                \A coarse \in {UnitAdds(CCCoarseTwin(arg), o)} :
                    /\ Len(adds) = arg.job_num[unit]
                    /\ \A i \in 0..(arg.job_num[unit] - 1) :
                            \A t \in {arg.trans_idx[arg.job_idx[unit]] + i} :
                                /\ adds[i + 1][1] = arg.job_idx[unit] + i
                                /\ coarse[t + 1][1] = o * arg.translation_num + t
                                /\ adds[i + 1][2] = coarse[t + 1][2]
                                /\ diff2_CC_fine_2D_sums(arg, unit, i)
                                        = diff2_CC_coarse_2D_sums(CCCoarseTwin(arg), o, t)

C19_Witness ==
    /\ arg.kernel = "diff2_CC_fine_2D"
    /\ Running
    /\ arg.job_num[unit] > 0
    /\ arg.trans_idx[arg.job_idx[unit]] > 0
    /\ arg.rot_idx[arg.job_idx[unit]] > 0
    /\ BandRows(arg) # {}
    /\ ~ZeroTranslations(arg)
    /\ arg.proj = "model"
    /\ arg.maxR > 0
    /\ \E c \in DOMAIN out : out[c].cc # EmptyBag

(***************************************************************************)
(* Index accesses of one work unit, as <<array, index, extent>>.           *)
(***************************************************************************)
\* the running offset `pixel` of the row kernel of a
KernelOffset(a, iz, iy) ==
    IF a.kernel = "diff2_CC_fine_3D" THEN PixelOffsetCCFine3D(a, iz, iy)
    ELSE IF Is3D(a.kernel) THEN PixelOffset3D(a, iz, iy)
    ELSE PixelOffset2D(a, iy)

\* diff2_coarse: tile arrays [pass_num][block_sz], tables
\* [translation_num][xSize|ySize|zSize], diff2s[translation_num][..] and the
\* reads of g_real, g_imag, g_corr
CoarseAccesses(a) ==
    UNION {LET pixel == sl[1] * a.block_sz + sl[2]
               s == TileSlot(a, pixel)
           IN  {<<"tile", sl[1], pass_num(a)>>, <<"tile", sl[2], a.block_sz>>,
                <<"g_real", pixel, a.image_size>>,
                <<"cos_x", TableIndex(s.x), a.imgX>>,
                <<"cos_y", TableIndex(s.y), a.imgY>>}
               \cup (IF a.DATA3D THEN {<<"cos_z", TableIndex(s.z), a.imgZ>>} ELSE {})
               \cup {<<"diff2s", i, a.translation_num>> : i \in 0..(a.translation_num - 1)}
           : sl \in TileSlots(a)}

\* row kernels: tables [translation_num][xSize|ySize|zSize], per-row
\* buffers [xSize], accumulators s[translation_num] and the reads of
\* g_imgs_real, g_imgs_imag, g_corr_img at pixel + x
RowAccesses(a, bid) ==
    LET trans_num == IF IsFine(a.kernel) THEN a.job_num[bid] ELSE a.translation_num
    IN  UNION {LET r == KernelRow(a, row[1], row[2])
                   pixel == KernelOffset(a, row[1], row[2])
               IN  UNION {{<<"g_imgs", pixel + x, a.image_size>>,
                           <<"ref_real", x, a.imgX>>,
                           <<"cos_x", x, a.imgX>>,
                           <<"cos_y", TableIndex(r.y), a.imgY>>}
                          \cup (IF Is3D(a.kernel)
                                THEN {<<"cos_z", TableIndex(r.z), a.imgZ>>} ELSE {})
                          \cup {<<"s", itrans, a.translation_num>> :
                                    itrans \in 0..(trans_num - 1)}
                          : x \in r.xstart..(r.xend - 1)}
               : row \in (0..(a.imgZ - 1)) \X (0..(a.imgY - 1))}

UnitAccesses(a, u) ==
    IF a.kernel = "diff2_coarse" THEN CoarseAccesses(a) ELSE RowAccesses(a, u)

\* the condition on the inputs: maxR below every extent the kernel uses and
\* no job longer than the declared number of translations
WellFormed(a) ==
    /\ 0 <= a.maxR /\ a.maxR < a.imgX /\ a.maxR < a.imgY
    /\ (Is3D(a.kernel) \/ a.DATA3D) => a.maxR < a.imgZ
    /\ IsFine(a.kernel) => \A b \in 0..(a.grid_size - 1) : a.job_num[b] <= a.translation_num

(***************************************************************************)
(* C20  Index safety: on well-formed inputs every table index (the negated *)
(* -y and -z included), every per-row buffer index (x = maxR on band rows  *)
(* included), every accumulator index and every read of the signal and the *)
(* weight lies inside its declared extent.                                 *)
(***************************************************************************)
C20_IndexSafety ==
    (Running /\ WellFormed(arg)) =>
        \A acc \in UnitAccesses(arg, unit) : 0 <= acc[2] /\ acc[2] < acc[3]

C20_Witness ==
    /\ arg.kernel = "diff2_fine_3D"
    /\ Running
    /\ unit > 0
    /\ WellFormed(arg)
    /\ arg.maxR >= 1
    /\ out # out0
    /\ \E iz \in 0..(arg.imgZ - 1), iy \in 0..(arg.imgY - 1) :
            /\ KernelRow(arg, iz, iy).z < 0
            /\ KernelRow(arg, iz, iy).y < 0
    /\ \E iz \in 0..(arg.imgZ - 1), iy \in 0..(arg.imgY - 1) :
            /\ KernelRow(arg, iz, iy).xstart = arg.maxR
            /\ KernelRow(arg, iz, iy).xend = arg.maxR + 1
            /\ <<"ref_real", arg.maxR, arg.imgX>> \in UnitAccesses(arg, unit)

(***************************************************************************)
(* The kernels pass by pass and row by row (SpecSteps).  Two invocations   *)
(* run interleaved, each on its own output array.  An invocation enters    *)
(* the kernel (Begin), and for every work unit clears its accumulators     *)
(* (Reset), adds the passes or rows one by one (Accumulate), adds the      *)
(* scores to the output cell by cell (Emit) and goes on to the next unit   *)
(* (NextUnit) until the outer loop ends (Finish).                          *)
(***************************************************************************)
Invocations == 1..2

ScratchShared(p) == 1

\* The stack frame that holds the arrays an invocation declares (tables,
\* tile and row buffers, accumulators): they are automatic variables of the
\* kernel function, so every invocation has its own.
ScratchSlot(p) == p

\* The accumulator cells <<translation, column, array>>: diff2s[i][j] of
\* diff2_coarse is <<i, j, 1>>, s[itrans] of the fine kernels <<itrans, 0, 1>>,
\* s_weight[itrans][x] and s_norm[itrans][x] of the CC kernels (s and s_cc of
\* the fine ones) <<itrans, x, 1>> and <<itrans, x, 2>>.
AccWidth == IF MaxEPB > MaxSize \div 2 THEN MaxEPB ELSE MaxSize \div 2

AccCells == (0..(MaxT - 1)) \X (0..(AccWidth - 1)) \X (1..2)

\* what the arrays of a new stack frame can hold before they are written
Uninitialised == {[c \in AccCells |-> 0], [c \in AccCells |-> 5]}

\* the translations of work unit u
UnitTransNum(a, u) == IF IsFine(a.kernel) THEN a.job_num[u] ELSE a.translation_num

\* the orientation of work unit u of a row kernel, as an offset into g_eulers
UnitEulers(a, u) == IF IsFine(a.kernel) THEN a.rot_idx[a.job_idx[u]] * 9 ELSE u * 9

\* the sin/cos table of work unit u of a row kernel
UnitTable(a, u) ==
    IF IsFine(a.kernel)
    THEN (IF Is3D(a.kernel) THEN JobTable3D(a, u) ELSE JobTable2D(a, u))
    ELSE IF Is3D(a.kernel)
    THEN computeSincosLookupTable3D(a.translation_num, a.trans_x, a.trans_y, a.trans_z,
                                    a.imgX, a.imgY, a.imgZ)
    ELSE computeSincosLookupTable2D(a.translation_num, a.trans_x, a.trans_y, a.imgX, a.imgY)

\* the accumulator cells work unit u clears and adds to
UnitCells(a, u) ==
    {c \in AccCells :
        /\ c[1] < UnitTransNum(a, u)
        /\ IF a.kernel = "diff2_coarse" THEN c[2] < a.eulers_per_block /\ c[3] = 1
           ELSE IF IsCC(a.kernel) THEN c[2] < a.imgX
           ELSE c[2] = 0 /\ c[3] = 1}

\* the memset at the start of a work unit
ResetAccKept(a, u, acc) == acc

ResetAcc(a, u, acc) == [c \in AccCells |-> IF c \in UnitCells(a, u) THEN 0 ELSE acc[c]]

\* the passes of a block of diff2_coarse, the rows of the other kernels
NumSteps(a) == IF a.kernel = "diff2_coarse" THEN pass_num(a) ELSE a.imgZ * a.imgY

\* what pass or row `step` of work unit u adds to accumulator cell c
StepTerm(a, u, step, c) ==
    LET iz == step \div a.imgY
        iy == step % a.imgY
        off == [z \in 0..(a.imgZ - 1) |-> [y \in 0..(a.imgY - 1) |-> KernelOffset(a, z, y)]]
    IN  IF a.kernel = "diff2_coarse" THEN diff2_coarse_diffi(a, u, c[1], c[2], step)
        ELSE IF a.kernel = "diff2_fine_2D" THEN diff2_fine_2D_row(a, u, c[1], iy)
        ELSE IF a.kernel = "diff2_fine_3D" THEN diff2_fine_3D_row(a, u, c[1], iz, iy)
        ELSE IF Is3D(a.kernel)
        THEN CCRow3D(a, UnitTable(a, u), UnitEulers(a, u), c[1], off, iz, iy, c[2])[c[3]]
        ELSE CCRow2D(a, UnitTable(a, u), UnitEulers(a, u), c[1], iy, c[2])[c[3]]

\* the additions to the output at the end of work unit u, in the order of the
\* final loop, from the accumulators acc
UnitEmit(a, u, acc) ==
    LET T == a.translation_num
        sums(i) == <<SumF([x \in 0..(a.imgX - 1) |-> acc[<<i, x, 1>>]], a.imgX),
                     SumF([x \in 0..(a.imgX - 1) |-> acc[<<i, x, 2>>]], a.imgX)>>
    IN  IF a.kernel = "diff2_coarse"
        THEN [k \in 1..(a.eulers_per_block * T) |->
                <<CoarseOutIndex(a, u, (k - 1) \div T, (k - 1) % T),
                  Finite(acc[<<(k - 1) % T, (k - 1) \div T, 1>>])>>]
        ELSE IF ~IsCC(a.kernel)
        THEN [k \in 1..a.job_num[u] |->
                <<a.job_idx[u] + (k - 1), FineEmit(acc[<<k - 1, 0, 1>>], a.sum_init)>>]
        ELSE IF IsFine(a.kernel)
        THEN [k \in 1..a.job_num[u] |->
                <<a.job_idx[u] + (k - 1), CCFineEmit(a, sums(k - 1))>>]
        ELSE [k \in 1..T |-> <<u * T + (k - 1), CCCoarseEmit(a, sums(k - 1))>>]

\* the arguments of the invocations followed step by step: every kernel on
\* the smallest image with wrapped rows, every pixel with its own sample,
\* translations that differ, jobs that overlap, and the first MaxGrid work
\* units as the grid
StepChoices ==
    {c \in Choices :
        /\ c[1][2]
        /\ c[1][1] = "diff2_coarse" => ~c[1][3] /\ c[2][2] = MaxEPB
        /\ c[1][4] = <<MaxSize \div 2, MaxSize - 1, IF c[1][3] THEN MaxSize - 1 ELSE 1, 1>>
        /\ c[3] = "ramp" /\ c[4] = "signal" /\ c[5] = "shift"
        /\ IsFine(c[1][1]) => Len(c[6]) > 2 /\ c[7] = 7}

StepArgs ==
    {[MkArg(c[1][1], c[1][2], c[1][3], c[2], c[1][4], c[3], c[4], c[5], c[6], c[7], c[8])
        EXCEPT !.grid_size = IF @ > MaxGrid THEN MaxGrid ELSE @] :
        c \in StepChoices}

\* an invocation before it starts
NewCall(a) == [arg |-> a, out0 |-> RampOut, out |-> RampOut, pc |-> "idle", unit |-> 0, step |-> 0]

InitSteps ==
    /\ arg = ScenarioS1
    /\ out0 = RampOut
    /\ out = out0
    /\ pc = "idle"
    /\ unit = 0
    /\ ncalls = 0
    /\ calls \in {<<NewCall(a1), NewCall(a2)>> :
                    a1 \in StepArgs,
                    a2 \in {a \in StepArgs : a.kernel = "diff2_fine_2D"}}
    /\ scratch = [f \in Invocations |-> [c \in AccCells |-> 0]]

\* the kernel is entered: its arrays are allocated, not initialised
Begin(p) ==
    /\ calls[p].pc = "idle"
    /\ calls' = [calls EXCEPT ![p].pc = "reset", ![p].unit = 0]
    /\ \E garbage \in Uninitialised :
            scratch' = [scratch EXCEPT ![ScratchSlot(p)] = garbage]
    /\ UNCHANGED <<arg, out, out0, pc, unit, ncalls>>

\* a work unit starts: memset of the accumulators
Reset(p) ==
    /\ calls[p].pc = "reset"
    /\ calls[p].unit < calls[p].arg.grid_size
    /\ scratch' = [scratch EXCEPT ![ScratchSlot(p)] = ResetAcc(calls[p].arg, calls[p].unit, @)]
    /\ calls' = [calls EXCEPT ![p].pc = "acc", ![p].step = 0]
    /\ UNCHANGED <<arg, out, out0, pc, unit, ncalls>>

\* one pass (diff2_coarse) or one row (the other kernels) is added to the
\* accumulators; a pass of diff2_coarse reads trans_z first
Accumulate(p) ==
    /\ calls[p].pc = "acc"
    /\ calls[p].step < NumSteps(calls[p].arg)
    /\ \E outcome \in IF calls[p].arg.kernel = "diff2_coarse"
                      THEN TransZReadOutcomes(calls[p].arg) ELSE {"ok"} :
            IF outcome = "ok"
            THEN /\ scratch' =
                        [scratch EXCEPT ![ScratchSlot(p)] =
                            [c \in AccCells |->
                                IF c \in UnitCells(calls[p].arg, calls[p].unit)
                                THEN @[c] + StepTerm(calls[p].arg, calls[p].unit,
                                                     calls[p].step, c)
                                ELSE @[c]]]
                 /\ calls' = IF calls[p].step + 1 = NumSteps(calls[p].arg)
                             THEN [calls EXCEPT ![p].pc = "emit", ![p].step = 0]
                             ELSE [calls EXCEPT ![p].step = @ + 1]
            ELSE /\ calls' = [calls EXCEPT ![p].pc = "fault"]
                 /\ UNCHANGED scratch
    /\ UNCHANGED <<arg, out, out0, pc, unit, ncalls>>

\* the next addition of the final loop of the work unit
Emit(p) ==
    LET adds == UnitEmit(calls[p].arg, calls[p].unit, scratch[ScratchSlot(p)])
    IN  /\ calls[p].pc = "emit"
        /\ calls[p].step < Len(adds)
        /\ calls' = [calls EXCEPT
                        ![p].out = AddCell(@, adds[calls[p].step + 1][1],
                                           adds[calls[p].step + 1][2]),
                        ![p].step = @ + 1]
        /\ UNCHANGED <<arg, out, out0, pc, unit, ncalls, scratch>>

\* the outer loop goes on to the next work unit
NextUnit(p) ==
    /\ calls[p].pc = "emit"
    /\ calls[p].step = Len(UnitEmit(calls[p].arg, calls[p].unit, scratch[ScratchSlot(p)]))
    /\ calls' = [calls EXCEPT ![p].pc = "reset", ![p].unit = @ + 1]
    /\ UNCHANGED <<arg, out, out0, pc, unit, ncalls, scratch>>

\* the outer loop ends and the kernel returns
Finish(p) ==
    /\ calls[p].pc = "reset"
    /\ calls[p].unit = calls[p].arg.grid_size
    /\ calls' = [calls EXCEPT ![p].pc = "done"]
    /\ UNCHANGED <<arg, out, out0, pc, unit, ncalls, scratch>>

NextSteps ==
    \E p \in Invocations :
        \/ Begin(p)
        \/ Reset(p)
        \/ Accumulate(p)
        \/ Emit(p)
        \/ NextUnit(p)
        \/ Finish(p)

SpecSteps == InitSteps /\ [][NextSteps]_vars

(***************************************************************************)
(* C12  Reentrancy: an invocation writes only its own call-local arrays    *)
(* and its output array and modifies none of its inputs, so each of two    *)
(* invocations interleaved at any granularity that write disjoint outputs  *)
(* finishes with exactly the output it produces when run alone.            *)
(***************************************************************************)
C12_Reentrancy ==
    /\ [](\A p \in Invocations :
            calls[p].pc = "done" =>
                calls[p].out = KernelCall(calls[p].arg, calls[p].out0, 0))
    /\ [][\A p \in Invocations :
            /\ calls'[p].arg = calls[p].arg
            /\ calls'[p].out0 = calls[p].out0
            /\ calls'[p] # calls[p] =>
                \A q \in Invocations \ {p} :
                    /\ calls'[q] = calls[q]
                    /\ scratch'[ScratchSlot(q)] = scratch[ScratchSlot(q)]]_vars

C12_Witness ==
    /\ calls # <<>>
    /\ \A p \in Invocations : calls[p].pc = "done" /\ calls[p].out # calls[p].out0
    /\ calls[1].arg.kernel = "diff2_CC_fine_3D"
    /\ calls[2].arg.kernel = "diff2_fine_2D"
    /\ scratch[ScratchSlot(1)] # scratch[ScratchSlot(2)]

\* the output array after the work units 0 .. n-1 of a call
RECURSIVE CallPrefix(_, _, _)
CallPrefix(a, o, n) ==
    IF n = 0 THEN o ELSE ApplyAdds(CallPrefix(a, o, n - 1), UnitAdds(a, n - 1))

\* the accumulator cell c of work unit u after its first n passes or rows
PartialSum(a, u, n, c) == SumF([st \in 0..(n - 1) |-> StepTerm(a, u, st, c)], n)

(***************************************************************************)
(* C16  Output write ordering: the work units of a call are processed in   *)
(* ascending order, the accumulators are reset at the start of each unit,  *)
(* and each output cell of a unit gets a single addition, after all pixels *)
(* of the unit are accumulated; at every point of the call an output cell  *)
(* holds its initial value plus complete scores of work units, never a     *)
(* partial pixel sum.                                                      *)
(***************************************************************************)
C16_WriteOrdering ==
    \A p \in DOMAIN calls :
        \A c \in {calls[p]} :
            \A base \in {CallPrefix(c.arg, c.out0, c.unit)} :
                /\ c.unit \in 0..c.arg.grid_size
                /\ c.pc \in {"idle", "reset", "acc", "fault", "done"} => c.out = base
                /\ c.pc = "done" => c.unit = c.arg.grid_size
                /\ c.pc = "acc" =>
                        \A cell \in UnitCells(c.arg, c.unit) :
                            scratch[ScratchSlot(p)][cell]
                                = PartialSum(c.arg, c.unit, c.step, cell)
                /\ c.pc = "emit" =>
                        \A adds \in {UnitAdds(c.arg, c.unit)} :
                            /\ \A cell \in UnitCells(c.arg, c.unit) :
                                    scratch[ScratchSlot(p)][cell]
                                        = PartialSum(c.arg, c.unit, NumSteps(c.arg), cell)
                            /\ \A j, k \in 1..Len(adds) : adds[j][1] = adds[k][1] => j = k
                            /\ c.out = ApplyAdds(base, SubSeq(adds, 1, c.step))

C16_Witness ==
    /\ calls # <<>>
    /\ calls[1].arg.kernel = "diff2_fine_2D"
    /\ calls[1].pc = "acc"
    /\ calls[1].unit > 0
    /\ calls[1].step > 0
    /\ calls[1].out # calls[1].out0
    /\ \E cell \in UnitCells(calls[1].arg, calls[1].unit) :
            /\ scratch[ScratchSlot(1)][cell] # 0
            /\ scratch[ScratchSlot(1)][cell]
                    # PartialSum(calls[1].arg, calls[1].unit, NumSteps(calls[1].arg), cell)
    /\ calls[2].pc = "emit"
    /\ calls[2].step > 0

====
